---- MODULE Spec2Model ----
(***************************************************************************)
(* Model of the logz facade (src/log.go): the key/value normaliser         *)
(* handleFields, the verbosity gate V, the info-only loggers, the full     *)
(* logger with its derivations, and the calls it makes on the zap engine   *)
(* (level gate, sampler, write, terminal action).                          *)
(***************************************************************************)
EXTENDS Integers, Sequences, FiniteSets, TLC

VARIABLES
    minLevel,     \* the engine's minimum level (zap.AtomicLevel of the core)
    development,  \* zap.Config.Development
    origin,       \* "New": engine built by New; "NewLogger": handle built by the caller
    loggers,      \* the logger instances the caller holds; loggers[1] is the root
    counts,       \* the sampler's counters of the current tick, per level and message
    terminated,   \* the process has exited (a fatal record's terminal action)
    last,         \* the last facade call: its inputs, engine events and outcome
    hfArgs,       \* input of a direct handleFields call
    hfOut         \* its result

vars == <<minLevel, development, origin, loggers, counts, terminated, last, hfArgs, hfOut>>

----------------------------------------------------------------------------
(* Bounds of the model *)

MaxArgs == 3
MaxLoggers == 3
SampleCap == 201

----------------------------------------------------------------------------
(* zapcore levels *)

DebugLevel == 0 - 1
InfoLevel == 0
WarnLevel == 1
ErrorLevel == 2
DPanicLevel == 3
PanicLevel == 4
FatalLevel == 5

SampInitial == 100
SampThereafter == 100

Severities == {DebugLevel, InfoLevel, WarnLevel, ErrorLevel, PanicLevel, FatalLevel}
EngineLevels == DebugLevel .. FatalLevel

LevelTexts == {"debug", "info", "warn", "error", "dpanic", "panic", "fatal", "", "verbose"}

(* zapcore.Level.UnmarshalText followed by New's fallback to InfoLevel *)
ParseLevel(text) ==
    CASE text = "debug"  -> DebugLevel
      [] text = "info"   -> InfoLevel
      [] text = ""       -> InfoLevel
      [] text = "warn"   -> WarnLevel
      [] text = "error"  -> ErrorLevel
      [] text = "dpanic" -> DPanicLevel
      [] text = "panic"  -> PanicLevel
      [] text = "fatal"  -> FatalLevel
      [] OTHER           -> InfoLevel

(* conversion of a Go int to zapcore.Level, an int8: the low 8 bits, signed *)
ToInt8(n) == ((n + 128) % 256) - 128

(* the AtomicLevel's LevelEnabler *)
CoreEnabled(min, lvl) == lvl >= min

----------------------------------------------------------------------------
(* Values of interface{} arguments and zap fields *)

Str(s) == [t |-> "string", v |-> s]
IntVal == [t |-> "int", v |-> "7"]
FieldPtr == [t |-> "*zap.Field", v |-> "f"]
NilVal == [t |-> "nil", v |-> ""]

Vals == {Str("region"), Str("us-east"), Str("count"), IntVal, FieldPtr}

(* zap.Any(key, value) *)
ZapAny(key, value) == [Type |-> "Any", Key |-> key, Value |-> value]

(* the zero value of zap.Field: Type is zapcore.UnknownType *)
ZeroField == [Type |-> "Unknown", Key |-> "", Value |-> NilVal]

DiagField == "Strongly-typed Zap Field pass to logz"
DiagOdd == "add number of arguments passed as key-value pairs for logging."
DiagKey == "non-string key argument passed for logging"

(* the arguments of one l.DPanic call of handleFields *)
Diag(msg, key, value) == [msg |-> msg, field |-> ZapAny(key, value)]

(* make([]zap.Field, n): a slice of LENGTH n, every element the zero Field *)
MakeFields(n) == [j \in 1 .. n |-> ZeroField]

(* the loop of handleFields; i is the 1-based position of the current key.
   diag is the sequence of DPanic calls the loop made (at most one: each is
   followed by break). *)
RECURSIVE HFLoop(_, _, _)
HFLoop(args, i, fields) ==
    IF i > Len(args) THEN [fields |-> fields, diag |-> <<>>]
    ELSE IF args[i].t = "*zap.Field"
         THEN [fields |-> fields, diag |-> <<Diag(DiagField, "zap field", args[i])>>]
    ELSE IF i = Len(args)
         THEN [fields |-> fields, diag |-> <<Diag(DiagOdd, "ignored key", args[i])>>]
    ELSE IF args[i].t # "string"
         THEN [fields |-> fields, diag |-> <<Diag(DiagKey, "invalid key", args[i])>>]
    ELSE HFLoop(args, i + 2, Append(fields, ZapAny(args[i].v, args[i + 1])))

handleFields(args, additional) ==
    IF Len(args) = 0 THEN [fields |-> additional, diag |-> <<>>]
    ELSE HFLoop(args, 1, MakeFields((Len(args) \div 2) + Len(additional)))

----------------------------------------------------------------------------
(* The zap engine, as far as the facade's calls reach it *)

Msg == "disk low"
Diags == {DiagField, DiagOdd, DiagKey}
(* the sampler's counters the model's records can touch: a severity with the
   caller's message, DPanicLevel with a diagnostic of handleFields *)
SampKeys == (Severities \X {Msg}) \cup ({DPanicLevel} \X Diags)
NoCounts == [k \in SampKeys |-> 0]

(* a *zap.Logger handle: its name segments and the fields bound by With *)
Handle(name, ctx) == [name |-> name, ctx |-> ctx]

(* engine events of one facade call, in the order they happen *)
EvCheck(lvl) == [e |-> "check", level |-> lvl, name |-> <<>>, msg |-> "", fields |-> <<>>]
EvEmit(h, lvl, msg, fields) ==
    [e |-> "emit", level |-> lvl, name |-> h.name, msg |-> msg, fields |-> h.ctx \o fields]
EvPanic == [e |-> "panic", level |-> 0, name |-> <<>>, msg |-> "", fields |-> <<>>]
EvExit == [e |-> "exit", level |-> 0, name |-> <<>>, msg |-> "", fields |-> <<>>]

(* New builds the engine with Sampling{Initial: 100, Thereafter: 100}: of the
   records of one level and message within a tick, the first Initial are
   written and then every Thereafter-th *)
SamplerAdmits(n) == ~(n > SampInitial /\ (n - SampInitial) % SampThereafter # 0)

(* the engine built by New is sampled; a handle given to NewLogger is taken
   as built without a sampler *)
Sampled(org) == org = "New"

(* mutant of ZapCheck: no level gate, every entry is written *)
ZapCheckNoGate(lvl, msg, min, smp, cnts) == [ce |-> TRUE, counts |-> cnts]

(* zap.Logger.Check: the level gate, then the core's Check (sampler, then the
   level enabler). ce: the entry will be written. *)
ZapCheck(lvl, msg, min, smp, cnts) ==
    LET enabled == CoreEnabled(min, lvl)
        counted == smp /\ enabled /\ <<lvl, msg>> \in SampKeys
        n       == IF counted THEN cnts[<<lvl, msg>>] + 1 ELSE 0
    IN IF lvl < DPanicLevel /\ ~enabled
       THEN [ce |-> FALSE, counts |-> cnts]
       ELSE [ce |-> enabled /\ (counted => SamplerAdmits(n)),
             counts |-> IF counted THEN [cnts EXCEPT ![<<lvl, msg>>] = n] ELSE cnts]

(* the terminal action zap attaches to an entry of this level *)
Terminal(lvl, dev) ==
    CASE lvl = PanicLevel -> <<EvPanic>>
      [] lvl = FatalLevel -> <<EvExit>>
      [] lvl = DPanicLevel /\ dev -> <<EvPanic>>
      [] OTHER -> <<>>

(* a field of zapcore.UnknownType cannot be encoded: Field.AddTo panics *)
Encodable(fields) == \A j \in 1 .. Len(fields) : fields[j].Type # "Unknown"

(* mutant of ZapWrite: the terminal action runs before the entry is written *)
ZapWriteEscalateFirst(h, lvl, msg, fields, dev, ce) ==
    Terminal(lvl, dev) \o (IF ce THEN <<EvEmit(h, lvl, msg, fields)>> ELSE <<>>)

(* CheckedEntry.Write: encode and write when the core took the entry, then
   the terminal action *)
ZapWrite(h, lvl, msg, fields, dev, ce) ==
    IF ce /\ ~Encodable(fields) THEN <<EvPanic>>
    ELSE (IF ce THEN <<EvEmit(h, lvl, msg, fields)>> ELSE <<>>) \o Terminal(lvl, dev)

(* how a sequence of events ends for the caller *)
Outcome(events) ==
    IF events = <<>> THEN "ok"
    ELSE LET e == events[Len(events)].e
         IN IF e = "panic" THEN "panic" ELSE IF e = "exit" THEN "exit" ELSE "ok"

(* zap.Logger.Debug/Info/.../Fatal/DPanic (msg, fields) *)
ZapLog(h, lvl, msg, fields, min, dev, smp, cnts) ==
    LET c == ZapCheck(lvl, msg, min, smp, cnts)
    IN [events |-> <<EvCheck(lvl)>> \o ZapWrite(h, lvl, msg, fields, dev, c.ce),
        counts |-> c.counts]

(* zap.Logger.With: no fields, the same logger; otherwise a clone whose core
   has the fields added to its encoder (which panics on an Unknown field) *)
ZapWith(h, fields) == Handle(h.name, h.ctx \o fields)

(* zap.Logger.Named: the empty segment returns the same logger *)
ZapNamed(h, s) == IF s = "" THEN h ELSE Handle(Append(h.name, s), h.ctx)

----------------------------------------------------------------------------
(* The facade's logger instances *)

NoHandle == Handle(<<"none">>, <<>>)

(* zapLogger{zapLogger: h, infoLogger{level: InfoLevel, log: ilog}} *)
FullLogger(h, ilog) == [kind |-> "full", zapLogger |-> h, level |-> InfoLevel, log |-> ilog]

(* &infoLogger{level: lvl, log: h} *)
InfoLogger(lvl, h) == [kind |-> "info", zapLogger |-> NoHandle, level |-> lvl, log |-> h]

(* disabledInfoLogeer, the shared stateless emptyInfoLogeer *)
disabledInfoLogeer == [kind |-> "noop", zapLogger |-> NoHandle, level |-> InfoLevel, log |-> NoHandle]

(* New: the named handle for the full logger, the unnamed one for the
   embedded infoLogger *)
New(name) == FullLogger(ZapNamed(Handle(<<>>, <<>>), name), Handle(<<>>, <<>>))

NewLogger(h) == FullLogger(h, h)

(* mutant of Enable: only the loggers V returned report enabled *)
EnableGated(lg) == lg.kind = "info"

(* infoLogger.Enable, promoted to zapLogger by embedding; emptyInfoLogeer.Enable *)
Enable(lg) == lg.kind # "noop"

(* zapLogger.V: the engine level of a verbosity number *)
VLevel(v) == ToInt8((0 - 1) * v)

(* mutant of VResult: no gate, an infoLogger whatever the level *)
VResultNoGate(lg, v, min) == InfoLogger(VLevel(v), lg.zapLogger)

(* zapLogger.V: the logger returned *)
VResult(lg, v, min) ==
    IF CoreEnabled(min, VLevel(v)) THEN InfoLogger(VLevel(v), lg.zapLogger)
    ELSE disabledInfoLogeer

(* fmt.Sprintf on the templates the model uses *)
Templates == {"disk low", "disk %s"}
Sprintf(template, arg) == IF template = "disk %s" THEN "disk " \o arg ELSE template

(* fields a caller builds for a structured call *)
PathField == ZapAny("path", Str("/data"))
CallerFields == {<<>>, <<PathField>>}

(* key/value lists of the keyword calls *)
KVLists ==
    { <<>>,
      <<Str("region"), Str("us-east")>>,
      <<Str("region"), Str("us-east"), Str("count")>>,
      <<Str("count")>>,
      <<IntVal, Str("us-east")>>,
      <<FieldPtr>> }

WellFormed(args) ==
    /\ Len(args) % 2 = 0
    /\ \A j \in 1 .. Len(args) : j % 2 = 1 => args[j].t = "string"

(* the fields of the well-formed pairs of args, in order *)
RECURSIVE PairFields(_)
PairFields(args) ==
    IF Len(args) < 2 THEN <<>>
    ELSE <<ZapAny(args[1].v, args[2])>> \o PairFields(SubSeq(args, 3, Len(args)))

(* the record of a facade call *)
Call(op, id, lvl, msg, args, fields, events, ret) ==
    [op |-> op, id |-> id, level |-> lvl, msg |-> msg, args |-> args, fields |-> fields,
     events |-> events, outcome |-> Outcome(events), ret |-> ret, min |-> minLevel, v |-> 0]

NoCall == [op |-> "none", id |-> 0, level |-> 0, msg |-> "", args |-> <<>>, fields |-> <<>>,
           events |-> <<>>, outcome |-> "ok", ret |-> 0, min |-> 0, v |-> 0]

(* the environment's burst limit: at most `keys` sampler counters are in use
   within a tick and none exceeds SampleCap *)
BurstOK(c, keys) ==
    /\ Cardinality({k \in SampKeys : c[k] > 0}) <= keys
    /\ \A k \in SampKeys : c[k] <= SampleCap

(* handleFields as called with logger handle h: the normaliser's fields, and
   the engine events of its DPanic call *)
HandleFieldsOn(h, args, min, dev, smp, cnts) ==
    LET r == handleFields(args, <<>>)
        d == IF r.diag = <<>> THEN [events |-> <<>>, counts |-> cnts]
             ELSE ZapLog(h, DPanicLevel, r.diag[1].msg, <<r.diag[1].field>>, min, dev, smp, cnts)
    IN [fields |-> r.fields, events |-> d.events, counts |-> d.counts,
        panicked |-> Outcome(d.events) = "panic"]

----------------------------------------------------------------------------
(* Operations.  keys is the environment's burst limit (BurstOK). *)

(* mutant of Derive: the derivation changes the receiver and returns it *)
DeriveInPlace(store, i, lg) == Append([store EXCEPT ![i] = lg], lg)

(* a derivation hands the caller a newly allocated instance (NewLogger's
   &zapLogger{...}, V's &infoLogger{...}); the receiver i stays as it is *)
Derive(store, i, lg) == Append(store, lg)

Push(i, lg) == loggers' = Derive(loggers, i, lg)

Finish(call, cnts, keys) ==
    /\ BurstOK(cnts, keys)
    /\ counts' = cnts
    /\ last' = call
    /\ terminated' = (call.outcome = "exit")
    /\ UNCHANGED <<minLevel, development, origin, hfArgs, hfOut>>

(* emptyInfoLogeer.Info / Infof / Infow: empty bodies *)
EmptyInfo(i, op) ==
    /\ ~terminated
    /\ loggers[i].kind = "noop"
    /\ Finish(Call(op, i, loggers[i].level, Msg, <<>>, <<>>, <<>>, 0), counts, 2)
    /\ UNCHANGED loggers

(* mutant of Info: the gate's decision is kept, the entry is written
   without a new check of the level *)
InfoCached(i, fields, keys) ==
    /\ ~terminated
    /\ loggers[i].kind = "info"
    /\ LET lg == loggers[i]
       IN Finish(Call("Info", i, lg.level, Msg, <<>>, fields,
                      ZapWrite(lg.log, lg.level, Msg, fields, development, TRUE), 0),
                 counts, keys)
    /\ UNCHANGED loggers

(* infoLogger.Info *)
Info(i, fields, keys) ==
    /\ ~terminated
    /\ loggers[i].kind = "info"
    /\ LET lg == loggers[i]
           r  == ZapLog(lg.log, lg.level, Msg, fields, minLevel, development,
                        Sampled(origin), counts)
       IN Finish(Call("Info", i, lg.level, Msg, <<>>, fields, r.events, 0), r.counts, keys)
    /\ UNCHANGED loggers

(* infoLogger.Infof *)
Infof(i, template, keys) ==
    /\ ~terminated
    /\ loggers[i].kind = "info"
    /\ LET lg == loggers[i]
           m  == Sprintf(template, "low")
           r  == ZapLog(lg.log, lg.level, m, <<>>, minLevel, development,
                        Sampled(origin), counts)
       IN Finish(Call("Infof", i, lg.level, m, <<>>, <<>>, r.events, 0), r.counts, keys)
    /\ UNCHANGED loggers

(* infoLogger.Infow: Check, and when it returns an entry, handleFields and
   then Write *)
Infow(i, args, keys) ==
    /\ ~terminated
    /\ loggers[i].kind = "info"
    /\ LET lg == loggers[i]
           c  == ZapCheck(lg.level, Msg, minLevel, Sampled(origin), counts)
           entry == c.ce \/ Terminal(lg.level, development) # <<>>
           hf == HandleFieldsOn(lg.log, args, minLevel, development, Sampled(origin), c.counts)
           ev == IF ~entry THEN <<EvCheck(lg.level)>>
                 ELSE IF hf.panicked THEN <<EvCheck(lg.level)>> \o hf.events
                 ELSE <<EvCheck(lg.level)>> \o hf.events
                      \o ZapWrite(lg.log, lg.level, Msg, hf.fields, development, c.ce)
       IN Finish(Call("Infow", i, lg.level, Msg, args, <<>>, ev, 0),
                 IF entry THEN hf.counts ELSE c.counts, keys)
    /\ UNCHANGED loggers

(* zapLogger.Debug / Info / Warn / Error / Panic / Fatal *)
Structured(i, sev, fields, keys) ==
    /\ ~terminated
    /\ loggers[i].kind = "full"
    /\ LET r == ZapLog(loggers[i].zapLogger, sev, Msg, fields, minLevel, development,
                       Sampled(origin), counts)
       IN Finish(Call("Structured", i, sev, Msg, <<>>, fields, r.events, 0), r.counts, keys)
    /\ UNCHANGED loggers

(* zapLogger.Debugf ... Fatalf: the sugared logger formats, then logs *)
Formatted(i, sev, template, keys) ==
    /\ ~terminated
    /\ loggers[i].kind = "full"
    /\ LET m == Sprintf(template, "low")
           r == ZapLog(loggers[i].zapLogger, sev, m, <<>>, minLevel, development,
                       Sampled(origin), counts)
       IN Finish(Call("Formatted", i, sev, m, <<>>, <<>>, r.events, 0), r.counts, keys)
    /\ UNCHANGED loggers

(* zapLogger.Debugw ... Fatalw with well-formed pairs: the sugared logger
   turns the pairs into fields itself (handleFields is not on this path) *)
Keyword(i, sev, args, keys) ==
    /\ ~terminated
    /\ loggers[i].kind = "full"
    /\ WellFormed(args)
    /\ LET r == ZapLog(loggers[i].zapLogger, sev, Msg, PairFields(args), minLevel,
                       development, Sampled(origin), counts)
       IN Finish(Call("Keyword", i, sev, Msg, args, <<>>, r.events, 0), r.counts, keys)
    /\ UNCHANGED loggers

(* InfoLogger.Enable on any instance *)
EnableCall(i) ==
    /\ ~terminated
    /\ Finish(Call("Enable", i, loggers[i].level, "", <<>>, <<>>, <<>>,
                   IF Enable(loggers[i]) THEN 1 ELSE 0), counts, 2)
    /\ UNCHANGED loggers

(* zapLogger.V: Core().Enabled is a read of the level; ret is the position of
   the returned logger among those the caller holds *)
V(i, v) ==
    /\ ~terminated
    /\ loggers[i].kind = "full"
    /\ Len(loggers) < MaxLoggers
    /\ Push(i, VResult(loggers[i], v, minLevel))
    /\ Finish([Call("V", i, VLevel(v), "", <<>>, <<>>, <<>>, Len(loggers) + 1)
                   EXCEPT !.v = v], counts, 2)

(* zapLogger.WithValue: handleFields, zap's With, NewLogger *)
WithValue(i, args) ==
    /\ ~terminated
    /\ loggers[i].kind = "full"
    /\ Len(loggers) < MaxLoggers
    /\ LET lg == loggers[i]
           hf == HandleFieldsOn(lg.zapLogger, args, minLevel, development,
                                Sampled(origin), counts)
           ok == ~hf.panicked /\ Encodable(hf.fields)
           ev == IF hf.panicked \/ Encodable(hf.fields) THEN hf.events
                 ELSE hf.events \o <<EvPanic>>
       IN /\ IF ok THEN Push(i, NewLogger(ZapWith(lg.zapLogger, hf.fields)))
                   ELSE UNCHANGED loggers
          /\ Finish(Call("WithValue", i, lg.level, "", args, <<>>, ev,
                         IF ok THEN Len(loggers) + 1 ELSE 0), hf.counts, 2)

(* zapLogger.WithName *)
WithName(i, s) ==
    /\ ~terminated
    /\ loggers[i].kind = "full"
    /\ Len(loggers) < MaxLoggers
    /\ Push(i, NewLogger(ZapNamed(loggers[i].zapLogger, s)))
    /\ Finish(Call("WithName", i, loggers[i].level, s, <<>>, <<>>, <<>>, Len(loggers) + 1),
              counts, 2)

(* the holder of the AtomicLevel of a handle given to NewLogger sets it *)
SetLevel(l) ==
    /\ ~terminated
    /\ origin = "NewLogger"
    /\ minLevel' = l
    /\ UNCHANGED <<development, origin, loggers, counts, terminated, last, hfArgs, hfOut>>

(* the sampler's tick passes: its counters start again *)
Tick ==
    /\ ~terminated
    /\ counts # NoCounts
    /\ counts' = NoCounts
    /\ UNCHANGED <<minLevel, development, origin, loggers, terminated, last, hfArgs, hfOut>>

----------------------------------------------------------------------------
(* The facade in use: derivations, the verbosity gate, informational calls *)

VInputs == {0, 1, 2, 128, 129, 256}
Names == {"", "db"}
ExtHandles == {Handle(<<"ext">>, <<ZapAny("svc", Str("api"))>>)}
LevelChoices == {DebugLevel, InfoLevel, WarnLevel, PanicLevel}

OptNames == {"svc"}

InitNew ==
    /\ origin = "New"
    /\ \E text \in LevelTexts : minLevel = ParseLevel(text)
    /\ \E name \in OptNames : loggers = <<New(name)>>

InitNewLogger ==
    /\ origin = "NewLogger"
    /\ minLevel \in LevelChoices
    /\ \E h \in ExtHandles : loggers = <<NewLogger(h)>>

Init ==
    /\ InitNew
    /\ development \in BOOLEAN
    /\ counts = NoCounts
    /\ terminated = FALSE
    /\ last = NoCall
    /\ hfArgs = <<>>
    /\ hfOut = [done |-> FALSE, fields |-> <<>>, diag |-> <<>>]

(* in this specification the caller's calls are more than a sampler tick
   apart (SpecSampled has the bursts) *)
Fresh == counts = NoCounts

Next ==
    \/ \E i \in DOMAIN loggers, op \in {"Info", "Infof", "Infow"} : Fresh /\ EmptyInfo(i, op)
    \/ \E i \in DOMAIN loggers, f \in CallerFields : Fresh /\ Info(i, f, 2)
    \/ \E i \in DOMAIN loggers, t \in Templates : Fresh /\ Infof(i, t, 2)
    \/ \E i \in DOMAIN loggers, a \in KVLists : Fresh /\ Infow(i, a, 2)
    \/ \E i \in DOMAIN loggers, f \in CallerFields : Fresh /\ Structured(i, InfoLevel, f, 2)
    \/ \E i \in DOMAIN loggers : Fresh /\ EnableCall(i)
    \/ \E i \in DOMAIN loggers, v \in VInputs : Fresh /\ V(i, v)
    \/ \E i \in DOMAIN loggers, a \in KVLists : Fresh /\ WithValue(i, a)
    \/ \E i \in DOMAIN loggers, s \in Names : Fresh /\ WithName(i, s)
    \/ Tick

Spec == Init /\ [][Next]_vars

----------------------------------------------------------------------------
(* A logger over a handle whose level the caller can still set: the gate V,
   the calls on the loggers it returned, and changes of the level *)

NextLevel ==
    \/ \E i \in DOMAIN loggers, op \in {"Info", "Infof", "Infow"} : EmptyInfo(i, op)
    \/ \E i \in DOMAIN loggers, f \in CallerFields : Info(i, f, 2)
    \/ \E i \in DOMAIN loggers, t \in Templates : Infof(i, t, 2)
    \/ \E i \in DOMAIN loggers, a \in KVLists : Infow(i, a, 2)
    \/ \E i \in DOMAIN loggers, v \in VInputs : V(i, v)
    \/ \E l \in LevelChoices : SetLevel(l)

InitLevel ==
    /\ InitNewLogger
    /\ development \in BOOLEAN
    /\ counts = NoCounts
    /\ terminated = FALSE
    /\ last = NoCall
    /\ hfArgs = <<>>
    /\ hfOut = [done |-> FALSE, fields |-> <<>>, diag |-> <<>>]

SpecLevel == InitLevel /\ [][NextLevel]_vars

----------------------------------------------------------------------------
(* The logger built by New under bursts of one record: all severities and
   call shapes on the root logger, within and across sampler ticks *)

NextSampled ==
    \/ \E sev \in Severities, f \in CallerFields : Structured(1, sev, f, 1)
    \/ \E sev \in Severities, t \in Templates : Formatted(1, sev, t, 1)
    \/ \E sev \in Severities, a \in KVLists : Keyword(1, sev, a, 1)
    \/ Tick

InitSampled ==
    /\ InitNew
    /\ development = FALSE
    /\ counts = NoCounts
    /\ terminated = FALSE
    /\ last = NoCall
    /\ hfArgs = <<>>
    /\ hfOut = [done |-> FALSE, fields |-> <<>>, diag |-> <<>>]

SpecSampled == InitSampled /\ [][NextSampled]_vars

----------------------------------------------------------------------------
(* handleFields alone, on every argument list up to MaxArgs values *)

ArgLists == UNION {[1 .. n -> Vals] : n \in 0 .. MaxArgs}

HandleFieldsCall ==
    /\ ~hfOut.done
    /\ LET r == handleFields(hfArgs, <<>>)
       IN hfOut' = [done |-> TRUE, fields |-> r.fields,
                    diag |-> [j \in 1 .. Len(r.diag) |-> r.diag[j].msg]]
    /\ UNCHANGED <<minLevel, development, origin, loggers, counts, terminated, last, hfArgs>>

InitFields ==
    /\ hfArgs \in ArgLists
    /\ hfOut = [done |-> FALSE, fields |-> <<>>, diag |-> <<>>]
    /\ origin = "New"
    /\ minLevel = InfoLevel
    /\ development = FALSE
    /\ loggers = <<New("")>>
    /\ counts = NoCounts
    /\ terminated = FALSE
    /\ last = NoCall

SpecFields == InitFields /\ [][HandleFieldsCall]_vars

----------------------------------------------------------------------------
(* Properties *)

(* the fields of the well-formed pairs that precede the first defect of
   args, in order (all pairs when args is well-formed) *)
RECURSIVE LeadingPairs(_)
LeadingPairs(args) ==
    IF Len(args) < 2 \/ args[1].t # "string" THEN <<>>
    ELSE <<ZapAny(args[1].v, args[2])>> \o LeadingPairs(SubSeq(args, 3, Len(args)))

(* C1: for an even-length argument list with string keys, handleFields
   returns exactly len(args)/2 fields, the j-th with key args[2j] and value
   args[2j+1], and emits no diagnostic. *)
C1_WellFormedFields ==
    (hfOut.done /\ WellFormed(hfArgs)) =>
        /\ Len(hfOut.fields) = Len(hfArgs) \div 2
        /\ hfOut.fields = LeadingPairs(hfArgs)
        /\ hfOut.diag = <<>>

(* C2: for a malformed argument list (odd length, or a non-string in a key
   position), handleFields returns exactly the fields of the well-formed
   pairs before the defect and emits exactly one diagnostic. *)
C2_MalformedFields ==
    (hfOut.done /\ ~WellFormed(hfArgs)) =>
        /\ hfOut.fields = LeadingPairs(hfArgs)
        /\ Len(hfOut.diag) = 1

(* does V(v) on the root logger return an enabled logger in this state *)
VEnabled(v) == Enable(VResult(loggers[1], v, minLevel))

(* C3: under a fixed configuration, for verbosity numbers V1 < V2, if V(V2)
   returns an enabled logger then so does V(V1). *)
C3_VMonotone ==
    (last.op = "V" /\ last.id = 1 /\ Enable(loggers[last.ret])) =>
        \A v1 \in VInputs : v1 < last.v => VEnabled(v1)

(* the records of the call's own message the engine wrote during the call *)
Emits(call) == SelectSeq(call.events, LAMBDA e : e.e = "emit" /\ e.msg = call.msg)

(* the position of the call's escalation (panic or exit) among its events, 0 if none *)
EscalationAt(call) ==
    IF \E j \in 1 .. Len(call.events) : call.events[j].e \in {"panic", "exit"}
    THEN CHOOSE j \in 1 .. Len(call.events) : call.events[j].e \in {"panic", "exit"}
    ELSE 0

(* the sampler's count of the call's record, while its tick lasts *)
SeenCount(call) == counts[<<call.level, Msg>>]

FullOps == {"Structured", "Formatted", "Keyword"}
InfoOps == {"Info", "Infof", "Infow"}

(* C4 as stated: on the logger built by New with minimum level m, a
   structured call below m produces no emission, and every structured call
   at or above m produces exactly one emission, at its severity, carrying
   exactly the caller's message and fields. *)
C4_ExactlyOneEmission ==
    last.op = "Structured" =>
        IF last.level < minLevel
        THEN Emits(last) = <<>>
        ELSE Emits(last) = <<EvEmit(loggers[1].zapLogger, last.level, last.msg, last.fields)>>

(* C4 amended: a structured call below m produces no emission; a call at or
   above m produces at most one emission, at its severity and with exactly
   the caller's message and fields, and produces it exactly when it is among
   the first 100 records of that level and message in the sampler's tick or
   a 100th one after them. *)
C4_EmissionUnlessSampled ==
    last.op = "Structured" =>
        /\ last.level < minLevel => Emits(last) = <<>>
        /\ \/ Emits(last) = <<>>
           \/ Emits(last) = <<EvEmit(loggers[1].zapLogger, last.level, last.msg, last.fields)>>
        /\ (last.level >= minLevel /\ SeenCount(last) > 0) =>
              (Emits(last) # <<>> <=>
                  \/ SeenCount(last) <= 100
                  \/ (SeenCount(last) - 100) % 100 = 0)

(* C4 witness: Warn("disk low", path="/data") under level "warn" has been emitted *)
C4_Witness ==
    /\ last.op = "Structured" /\ last.level = WarnLevel /\ minLevel = WarnLevel
    /\ last.fields = <<PathField>>
    /\ Emits(last) = <<EvEmit(loggers[1].zapLogger, WarnLevel, "disk low", <<PathField>>)>>

C5_DerivationFrame ==
    /\ [][\A i \in DOMAIN loggers : i \in DOMAIN loggers' /\ loggers'[i] = loggers[i]]_vars
    /\ [](last.op = "WithName" =>
            /\ loggers[last.ret].kind = "full"
            /\ loggers[last.ret].level = loggers[last.id].level
            /\ loggers[last.ret].zapLogger.ctx = loggers[last.id].zapLogger.ctx
            /\ loggers[last.ret].zapLogger.name =
                  (IF last.msg = "" THEN loggers[last.id].zapLogger.name
                   ELSE loggers[last.id].zapLogger.name \o <<last.msg>>))

(* C5 witness: a logger derived from a derived logger carries two name
   segments more than the root, which still has its own *)
C5_Witness ==
    /\ last.op = "WithName" /\ last.id > 1 /\ last.msg = "db"
    /\ loggers[1].zapLogger.name = <<"svc">>
    /\ loggers[last.ret].zapLogger.name = <<"svc", "db", "db">>

(* C6: V(v) with an engine level that is not enabled returns the no-op
   logger; its Enable() is false, and Info, Infof and Infow on it do nothing
   with the engine: no level check, no emission, no diagnostic, no sampler
   count. *)
C6_NoopSilent ==
    /\ (last.op = "V" /\ VLevel(last.v) < minLevel) =>
          /\ loggers[last.ret] = disabledInfoLogeer
          /\ ~Enable(loggers[last.ret])
    /\ (last.op \in InfoOps /\ loggers[last.id].kind = "noop") =>
          /\ last.events = <<>>
          /\ last.outcome = "ok"
          /\ counts = NoCounts
    /\ (last.op = "Enable" /\ loggers[last.id].kind = "noop") => last.ret = 0

(* C6 witness: under level "debug" (verbosity up to 1) V(2) has returned the
   no-op logger *)
C6_Witness ==
    /\ minLevel = DebugLevel
    /\ last.op = "V" /\ last.v = 2
    /\ loggers[last.ret].kind = "noop"

(* C7: a keyword call that goes through handleFields with malformed
   arguments (Infow on a logger returned by V, WithValue) returns normally
   under every configuration, and the caller's record or derived logger is
   still produced.  Stated for the configurations with development mode
   off, where the diagnostic itself does not panic. *)
C7_NeverPropagates ==
    (/\ ~development
     /\ \/ last.op = "Infow" /\ loggers[last.id].kind = "info"
        \/ last.op = "WithValue"
     /\ ~WellFormed(last.args)) =>
        /\ last.outcome = "ok"
        /\ last.op = "WithValue" => last.ret # 0
        /\ (last.op = "Infow" /\ last.level >= minLevel) => Len(Emits(last)) = 1

(* C9 as stated: the gate's decision is fixed when V returns: a logger V
   returned as enabled emits on every later Info, Infof and Infow call
   whatever the level has become, and the no-op logger stays silent.  (Infow
   with key/values is left to C1 and C7.) *)
C9_GateDecisionCached ==
    (\/ last.op \in {"Info", "Infof"}
     \/ last.op = "Infow" /\ last.args = <<>>) =>
        IF loggers[last.id].kind = "info" THEN Len(Emits(last)) = 1
        ELSE Emits(last) = <<>>

(* C9 amended: the no-op logger V returned stays silent whatever the level
   becomes; a logger V returned as enabled has its level checked against the
   engine's minimum level again on every Info, Infof and Infow call, and
   emits only if the level is enabled at the time of the call (and, for Info
   and Infof on an engine without a sampler, whenever it is). *)
C9_LevelRecheckedAtCall ==
    last.op \in InfoOps =>
        /\ loggers[last.id].kind = "noop" => last.events = <<>>
        /\ loggers[last.id].kind = "info" =>
              /\ Emits(last) # <<>> => last.level >= last.min
              /\ last.level < last.min => last.events = <<EvCheck(last.level)>>
              /\ (last.level >= last.min /\ last.op \in {"Info", "Infof"}) =>
                    Emits(last) = <<EvEmit(loggers[last.id].log, last.level, last.msg,
                                           last.fields)>>

(* C9 witness: an Info call on a logger that V returned as enabled, made
   after the level was raised above the logger's level, has emitted nothing *)
C9_Witness ==
    /\ last.op = "Info" /\ loggers[last.id].kind = "info"
    /\ last.level < last.min
    /\ Emits(last) = <<>>

(* an informational structured call on any kind of instance *)
IsInfoCall == last.op = "Info" \/ (last.op = "Structured" /\ last.level = InfoLevel)

(* C10 as stated: on every instance Enable() is true exactly when an Info
   call on the instance produces an emission. *)
C10_EnableIffEmits ==
    IsInfoCall => (Enable(loggers[last.id]) <=> Emits(last) # <<>>)

(* C10 amended: Enable() is false on the no-op logger and true on every
   other instance, whatever the configuration; an instance whose Enable() is
   false never emits, and an instance whose Enable() is true emits on Info
   only if its level is enabled by the engine at the time of the call. *)
C10_EnableFalseOnlyNoop ==
    /\ last.op = "Enable" => (last.ret = 0 <=> loggers[last.id].kind = "noop")
    /\ IsInfoCall =>
          /\ Emits(last) # <<>> => (Enable(loggers[last.id]) /\ last.level >= last.min)
          /\ ~Enable(loggers[last.id]) => last.events = <<>>

(* C10 witness: under level "warn" a full logger has answered Enable() with true *)
C10_Witness ==
    /\ minLevel = WarnLevel
    /\ last.op = "Enable" /\ loggers[last.id].kind = "full" /\ last.ret = 1

====
